---- MODULE Spec2Model ----
(***************************************************************************)
(* Carbon Commute Calculator: the Home screen (form, validation, the       *)
(* delayed calculation and the record it saves), the AsyncStorage entries  *)
(* '@is_metric' and '@calculation_history', and the History screen.        *)
(*                                                                         *)
(* Numbers.  A JavaScript number is modelled by its real value, kept as an *)
(* exact signed fraction of two products of small integer factors, or by   *)
(* NaN / Infinity.  toFixed rounds the exact value to the nearest decimal, *)
(* a tie going away from zero; an IEEE double can fall on the other side   *)
(* of a tie, so the properties about rounding are stated as "a nearest     *)
(* 2-decimal value", which holds of either outcome.                        *)
(* A decimal text (a form field, a field of a record) is a record          *)
(* [t, v]: t = "num" is a numeral worth v/100, "empty" the empty text,     *)
(* "text" a text that does not start with a number, "NaN" and "Infinity"   *)
(* the texts toFixed gives for those values.                               *)
(***************************************************************************)
EXTENDS Integers, Sequences, FiniteSets, TLC

(***************************************************************************)
(* Unbounded naturals: little-endian sequences of base-100 digits without  *)
(* leading zeros (<<>> is 0).  A small factor is below 2*10^7.             *)
(***************************************************************************)
RECURSIVE BigFromInt(_)
BigFromInt(n) == IF n = 0 THEN <<>> ELSE <<n % 100>> \o BigFromInt(n \div 100)

RECURSIVE BigMulSmall(_, _, _)
BigMulSmall(a, k, c) ==
  IF k = 0 THEN <<>>
  ELSE IF a = <<>> THEN BigFromInt(c)
  ELSE LET t == Head(a) * k + c
       IN  <<t % 100>> \o BigMulSmall(Tail(a), k, t \div 100)

RECURSIVE BigProd(_)
BigProd(fs) ==
  IF fs = <<>> THEN <<1>> ELSE BigMulSmall(BigProd(Tail(fs)), Head(fs), 0)

RECURSIVE BigAdd(_, _, _)
BigAdd(a, b, c) ==
  IF a = <<>> /\ b = <<>> THEN BigFromInt(c)
  ELSE LET x == IF a = <<>> THEN 0 ELSE Head(a)
           y == IF b = <<>> THEN 0 ELSE Head(b)
           t == x + y + c
       IN  <<t % 100>> \o BigAdd(IF a = <<>> THEN a ELSE Tail(a),
                                 IF b = <<>> THEN b ELSE Tail(b), t \div 100)

RECURSIVE BigNorm(_)
BigNorm(a) ==
  IF a = <<>> THEN a
  ELSE IF a[Len(a)] = 0 THEN BigNorm(SubSeq(a, 1, Len(a) - 1)) ELSE a

RECURSIVE BigLeFrom(_, _, _)
BigLeFrom(a, b, i) ==
  IF i = 0 THEN TRUE
  ELSE IF a[i] # b[i] THEN a[i] < b[i] ELSE BigLeFrom(a, b, i - 1)

BigLe(a, b) ==
  IF Len(a) # Len(b) THEN Len(a) < Len(b) ELSE BigLeFrom(a, b, Len(a))

RECURSIVE BigDivRec(_, _, _, _)
BigDivRec(a, k, i, r) ==
  IF i = 0 THEN <<>>
  ELSE LET cur == r * 100 + a[i]
       IN  BigDivRec(a, k, i - 1, cur % k) \o <<cur \div k>>

\* floor(a / k) for a small factor k > 0
BigDivSmall(a, k) == BigNorm(BigDivRec(a, k, Len(a), 0))

RECURSIVE BigDivAll(_, _)
\* floor(a / (k1 * ... * kn)), by floor(floor(a / k1) / k2) ...
BigDivAll(a, ks) ==
  IF ks = <<>> THEN a ELSE BigDivAll(BigDivSmall(a, Head(ks)), Tail(ks))

RECURSIVE BigToInt(_)
BigToInt(a) == IF a = <<>> THEN 0 ELSE Head(a) + 100 * BigToInt(Tail(a))

(***************************************************************************)
(* JavaScript numbers                                                      *)
(***************************************************************************)
Abs(i) == IF i < 0 THEN -i ELSE i
Sgn(i) == IF i < 0 THEN -1 ELSE 1

NaN == [k |-> "nan", s |-> 1, n |-> <<>>, d |-> <<>>]
Infinity(s) == [k |-> "inf", s |-> s, n |-> <<>>, d |-> <<>>]
\* the number i / q, for integers i and q > 0
Frac(i, q) == [k |-> "fin", s |-> Sgn(i), n |-> <<Abs(i)>>, d |-> <<q>>]

IsZero(x) == x.k = "fin" /\ \E i \in 1..Len(x.n) : x.n[i] = 0

\* x * y
Times(x, y) ==
  IF x.k = "nan" \/ y.k = "nan" THEN NaN
  ELSE IF x.k = "inf" \/ y.k = "inf"
       THEN IF IsZero(x) \/ IsZero(y) THEN NaN ELSE Infinity(x.s * y.s)
  ELSE [k |-> "fin", s |-> x.s * y.s, n |-> x.n \o y.n, d |-> x.d \o y.d]

\* x / y
Over(x, y) ==
  IF x.k = "nan" \/ y.k = "nan" THEN NaN
  ELSE IF x.k = "inf" THEN (IF y.k = "inf" THEN NaN ELSE Infinity(x.s * y.s))
  ELSE IF y.k = "inf" THEN Frac(0, 1)
  ELSE IF IsZero(y) THEN (IF IsZero(x) THEN NaN ELSE Infinity(x.s * y.s))
  ELSE [k |-> "fin", s |-> x.s * y.s, n |-> x.n \o y.d, d |-> x.d \o y.n]

\* x > c/100 and x <= c/100 for a number x with one numerator and one
\* denominator factor (a parsed text); any comparison with NaN is false
Gt(x, c) ==
  \/ x.k = "inf" /\ x.s = 1
  \/ x.k = "fin" /\ x.s * x.n[1] * 100 > c * x.d[1]
Le(x, c) ==
  \/ x.k = "inf" /\ x.s = -1
  \/ x.k = "fin" /\ x.s * x.n[1] * 100 <= c * x.d[1]
isNaN(x) == x.k = "nan"

\* the integer nearest to |x| * scale, a tie going up
RoundScaled(x, scale) ==
  LET N  == BigProd(x.n)
      Dn == BigProd(x.d)
  IN  BigToInt(BigDivAll(BigAdd(BigMulSmall(N, 2 * scale, 0), Dn, 0),
                         <<2>> \o x.d))

\* x.toFixed(2): the text of x rounded to 2 decimals
toFixed2(x) ==
  IF x.k = "nan" THEN [t |-> "NaN", v |-> 0]
  ELSE IF x.k = "inf" THEN [t |-> "Infinity", v |-> x.s]
  ELSE [t |-> "num", v |-> x.s * RoundScaled(x, 100)]

\* parseFloat(text)
parseFloat(f) ==
  IF f.t = "num" THEN Frac(f.v, 100)
  ELSE IF f.t = "Infinity" THEN Infinity(f.v)
  ELSE NaN

\* String(n) for an integer n
String(n) == [t |-> "num", v |-> n * 100]

(***************************************************************************)
(* Vehicle catalog and the form                                            *)
(***************************************************************************)
VehicleTypes ==
  {"Small Car", "Hybrid Car", "Large Car", "SUV", "Truck", "Bus", "E-bike",
   "Motorcycle", "Subway"}

\* vehicleData[type].mpg
vehicleData ==
  [ty \in VehicleTypes |->
     CASE ty = "Small Car"  -> 32
       [] ty = "Hybrid Car" -> 45
       [] ty = "Large Car"  -> 27
       [] ty = "SUV"        -> 23
       [] ty = "Truck"      -> 18
       [] ty = "Bus"        -> 6
       [] ty = "E-bike"     -> 842
       [] ty = "Motorcycle" -> 40
       [] ty = "Subway"     -> 198]

defaultVehicleType == "SUV"

Num(v) == [t |-> "num", v |-> v]
EmptyText == [t |-> "empty", v |-> 0]
OtherText == [t |-> "text", v |-> 0]
null == [t |-> "null", v |-> 0]

\* the text the fuel-efficiency field is reset to: MPG, or L/100 km
defaultTexts ==
  [ty \in VehicleTypes, metric \in BOOLEAN |->
     IF metric
     THEN toFixed2(Over(Frac(235214, 1000), Frac(vehicleData[ty], 1)))
     ELSE String(vehicleData[ty])]
defaultFuelEfficiency(ty, metric) == defaultTexts[ty, metric]

(***************************************************************************)
(* validateInputs and the body of calculateEmissions, as functions of the  *)
(* state of the render they close over:                                    *)
(*   c = [miles, fuelEfficiency, vehicleType, isMetric]                    *)
(***************************************************************************)
Closure(m, fe, ty, metric) ==
  [miles |-> m, fuelEfficiency |-> fe, vehicleType |-> ty, isMetric |-> metric]

\* validateInputs with the efficiency checked for every vehicle type
validateInputs_AllTypes(c) ==
  LET distanceValue == parseFloat(c.miles)
      feNum == parseFloat(c.fuelEfficiency)
  IN  IF isNaN(distanceValue) \/ Le(distanceValue, 0) THEN "InvalidDistance"
      ELSE IF isNaN(feNum) \/ Le(feNum, 0) THEN "InvalidEfficiency"
      ELSE IF ~c.isMetric /\ Gt(feNum, 15000) THEN "EfficiencySuspicious"
      ELSE "ok"

\* validateInputs rejecting only a negative distance
validateInputs_ZeroDistance(c) ==
  LET distanceValue == parseFloat(c.miles)
      feNum == parseFloat(c.fuelEfficiency)
  IN  IF isNaN(distanceValue) \/ Le(distanceValue, -1) THEN "InvalidDistance"
      ELSE IF c.vehicleType # "E-bike" /\ c.vehicleType # "Subway"
           THEN IF isNaN(feNum) \/ Le(feNum, 0) THEN "InvalidEfficiency"
                ELSE IF ~c.isMetric /\ Gt(feNum, 15000)
                     THEN "EfficiencySuspicious"
                     ELSE "ok"
           ELSE "ok"

\* validateInputs checking the efficiency only as MPG
validateInputs_ImperialOnly(c) ==
  LET distanceValue == parseFloat(c.miles)
      feNum == parseFloat(c.fuelEfficiency)
  IN  IF isNaN(distanceValue) \/ Le(distanceValue, 0) THEN "InvalidDistance"
      ELSE IF c.vehicleType # "E-bike" /\ c.vehicleType # "Subway"
              /\ ~c.isMetric
           THEN IF isNaN(feNum) \/ Le(feNum, 0) THEN "InvalidEfficiency"
                ELSE IF Gt(feNum, 15000) THEN "EfficiencySuspicious"
                ELSE "ok"
           ELSE "ok"

\* validateInputs warning from 150 MPG on
validateInputs_From150(c) ==
  LET distanceValue == parseFloat(c.miles)
      feNum == parseFloat(c.fuelEfficiency)
  IN  IF isNaN(distanceValue) \/ Le(distanceValue, 0) THEN "InvalidDistance"
      ELSE IF c.vehicleType # "E-bike" /\ c.vehicleType # "Subway"
           THEN IF isNaN(feNum) \/ Le(feNum, 0) THEN "InvalidEfficiency"
                ELSE IF ~c.isMetric /\ ~Le(feNum, 14999)
                     THEN "EfficiencySuspicious"
                     ELSE "ok"
           ELSE "ok"

validateInputs(c) ==
  LET distanceValue == parseFloat(c.miles)
      feNum == parseFloat(c.fuelEfficiency)
  IN  IF isNaN(distanceValue) \/ Le(distanceValue, 0) THEN "InvalidDistance"
      ELSE IF c.vehicleType # "E-bike" /\ c.vehicleType # "Subway"
           THEN IF isNaN(feNum) \/ Le(feNum, 0) THEN "InvalidEfficiency"
                ELSE IF ~c.isMetric /\ Gt(feNum, 15000)
                     THEN "EfficiencySuspicious"
                     ELSE "ok"
           ELSE "ok"

\* milesNum without the conversion of kilometres
milesNum_AsEntered(c) == parseFloat(c.miles)

\* milesNum: the entered distance as "raw miles"
milesNum(c) ==
  IF c.isMetric
  THEN Over(parseFloat(c.miles), Frac(160934, 100000))
  ELSE parseFloat(c.miles)

\* dayLbs with the bus's emissions not divided among its passengers
dayLbs_WholeBus(c) ==
  IF c.vehicleType = "Bus"
  THEN Times(milesNum(c), Over(Frac(2245, 100), Frac(6, 1)))
  ELSE IF c.vehicleType = "E-bike" \/ c.vehicleType = "Subway"
  THEN Times(milesNum(c),
             Times(Over(Frac(337, 10), Frac(vehicleData[c.vehicleType], 1)),
                   Frac(92, 100)))
  ELSE Times(Over(milesNum(c),
                  IF ~c.isMetric THEN parseFloat(c.fuelEfficiency)
                  ELSE Over(Frac(235214, 1000), parseFloat(c.fuelEfficiency))),
             Frac(196, 10))

\* day, in lbs, before the unit conversion and the rounding
dayLbs(c) ==
  IF c.vehicleType = "Bus"
  THEN LET perMilePerPerson ==
             Over(Over(Frac(2245, 100), Frac(6, 1)), Frac(15, 1))
       IN  Times(milesNum(c), perMilePerPerson)
  ELSE IF c.vehicleType = "E-bike" \/ c.vehicleType = "Subway"
  THEN LET kWhPerMile == Over(Frac(337, 10), Frac(vehicleData[c.vehicleType], 1))
           co2PerMile == Times(kWhPerMile, Frac(92, 100))
       IN  Times(milesNum(c), co2PerMile)
  ELSE LET feNum == parseFloat(c.fuelEfficiency)
           mpgValue == IF ~c.isMetric THEN feNum
                       ELSE Over(Frac(235214, 1000), feNum)
           gallonsUsed == Over(milesNum(c), mpgValue)
       IN  Times(gallonsUsed, Frac(196, 10))

\* day/week/year in the unit of the closure's unit system
inUnit(c, lbs) == IF c.isMetric THEN Times(lbs, Frac(453592, 1000000)) ELSE lbs

emissionsPerDay(c)  == toFixed2(inUnit(c, dayLbs(c)))

\* the year counted as 365 days
emissionsPerYear_Calendar(c) ==
  toFixed2(inUnit(c, Times(dayLbs(c), Frac(365, 1))))

\* the week taken from the rounded day value
emissionsPerWeek_FromRounded(c) ==
  toFixed2(Times(parseFloat(emissionsPerDay(c)), Frac(5, 1)))

emissionsPerWeek(c) == toFixed2(inUnit(c, Times(dayLbs(c), Frac(5, 1))))
emissionsPerYear(c) ==
  toFixed2(inUnit(c, Times(Times(dayLbs(c), Frac(5, 1)), Frac(52, 1))))

\* the delay of the setTimeout of calculateEmissions, in milliseconds
CalculationDelay == 800

\* the record identified by the day of its calculation
CalculationRecord_DayId(c, calculationTime) ==
  [id               |-> calculationTime \div 86400000,
   date             |-> calculationTime,
   miles            |-> toFixed2(milesNum(c)),
   fuelEfficiency   |-> c.fuelEfficiency,
   emissionsPerDay  |-> emissionsPerDay(c),
   emissionsPerWeek |-> emissionsPerWeek(c),
   emissionsPerYear |-> emissionsPerYear(c),
   vehicleType      |-> c.vehicleType]

\* the record keeping the distance as it was entered
CalculationRecord_EnteredDistance(c, calculationTime) ==
  [id               |-> calculationTime,
   date             |-> calculationTime,
   miles            |-> toFixed2(parseFloat(c.miles)),
   fuelEfficiency   |-> c.fuelEfficiency,
   emissionsPerDay  |-> emissionsPerDay(c),
   emissionsPerWeek |-> emissionsPerWeek(c),
   emissionsPerYear |-> emissionsPerYear(c),
   vehicleType      |-> c.vehicleType]

\* the CalculationRecord built when the timer fires at calculationTime
\* (milliseconds; id and date are texts of that one instant)
CalculationRecord(c, calculationTime) ==
  [id               |-> calculationTime,
   date             |-> calculationTime,
   miles            |-> toFixed2(milesNum(c)),
   fuelEfficiency   |-> c.fuelEfficiency,
   emissionsPerDay  |-> emissionsPerDay(c),
   emissionsPerWeek |-> emissionsPerWeek(c),
   emissionsPerYear |-> emissionsPerYear(c),
   vehicleType      |-> c.vehicleType]

(***************************************************************************)
(* State                                                                   *)
(***************************************************************************)
VARIABLES
  miles,            \* HomeScreen: the distance field
  fuelEfficiency,   \* HomeScreen: the fuel-efficiency field
  vehicleType,      \* HomeScreen: the selected vehicle type
  isMetric,         \* HomeScreen: its copy of the unit system
  emissions,        \* HomeScreen: the published daily result, or null
  isCalculating,    \* HomeScreen: the pending flag (disables the button)
  timers,           \* pending setTimeout callbacks: the closures they hold
  alert,            \* the Alert dialog on screen: [kind, c]
  screen,           \* the focused tab: "Home" or "History"
  history,          \* HistoryScreen: the displayed list
  historyIsMetric,  \* HistoryScreen: its copy of the unit system
  storedIsMetric,   \* AsyncStorage '@is_metric': "null", "true" or "false"
  storedHistory,    \* AsyncStorage '@calculation_history': [k, recs]
  queue,            \* AsyncStorage calls not yet completed, in call order
  now,              \* the clock: milliseconds since the first launch
  due,              \* the times the pending timers are due, as in timers
  cleared,          \* history variable: a confirmed clear has completed
                    \* and no calculation has been started since
  actions,          \* user actions so far (bounds the model)
  failures          \* store calls that have been rejected so far

vars ==
  <<miles, fuelEfficiency, vehicleType, isMetric, emissions, isCalculating,
    timers, alert, screen, history, historyIsMetric, storedIsMetric,
    storedHistory, queue, now, due, cleared, actions, failures>>

homeForm == <<miles, fuelEfficiency, vehicleType, isMetric>>
homeVars == <<miles, fuelEfficiency, vehicleType, isMetric, emissions,
              isCalculating, timers>>
storeVars == <<storedIsMetric, storedHistory>>

\* Bounds of the model: the user's actions (edits, toggles, presses of
\* Calculate and of Clear History, visits of the History tab; answering an
\* alert and returning to the Home tab are not counted) and the rejected
\* store calls
MaxActions == 4
MaxFailures == 1

\* Values the user types or picks in the behaviours of Spec
TypedMiles == {OtherText}
TypedEfficiency == {Num(15000), Num(20000)}
PickedVehicles == {"SUV", "E-bike"}

NoAlert == [kind |-> "none", c |-> null]
Absent == [k |-> "absent", recs |-> <<>>]
\* a stored text that JSON.parse rejects
Corrupt == [k |-> "corrupt", recs |-> <<>>]

\* the state the current render closes over
Rendered == Closure(miles, fuelEfficiency, vehicleType, isMetric)

Init ==
  /\ miles = Num(3500)
  /\ vehicleType = defaultVehicleType
  /\ isMetric = FALSE
  /\ fuelEfficiency = defaultFuelEfficiency(defaultVehicleType, FALSE)
  /\ emissions = null
  /\ isCalculating = FALSE
  /\ timers = <<>>
  /\ alert = NoAlert
  /\ screen = "Home"
  /\ history = <<>>
  /\ historyIsMetric = FALSE
  /\ storedIsMetric \in {"null"}
  /\ storedHistory = Absent
  /\ queue = <<[k |-> "homeLoadIsMetric"]>>
  /\ now = 0
  /\ due = <<>>
  /\ cleared = FALSE
  /\ actions = 0
  /\ failures = 0

(***************************************************************************)
(* Home screen                                                             *)
(***************************************************************************)
\* useEffect [miles, fuelEfficiency, vehicleType]: setEmissions(null)
ResetEmissions(m, fe, ty, e) ==
  IF m # miles \/ fe # fuelEfficiency \/ ty # vehicleType THEN null ELSE e

UserAtHome == screen = "Home" /\ alert = NoAlert /\ actions < MaxActions

\* an edit of the distance that cancels the pending calculation
SetMiles_Cancels ==
  /\ UserAtHome
  /\ \E m \in TypedMiles : miles' = m
  /\ miles' # miles
  /\ emissions' = ResetEmissions(miles', fuelEfficiency, vehicleType, emissions)
  /\ actions' = actions + 1
  /\ timers' = <<>> /\ due' = <<>>
  /\ UNCHANGED <<fuelEfficiency, vehicleType, isMetric, isCalculating,
                 alert, screen, history, historyIsMetric, storeVars, queue,
                 failures, now, cleared>>

\* onChangeText={setMiles}
SetMiles ==
  /\ UserAtHome
  /\ \E m \in TypedMiles : miles' = m
  /\ miles' # miles
  /\ emissions' = ResetEmissions(miles', fuelEfficiency, vehicleType, emissions)
  /\ actions' = actions + 1
  /\ UNCHANGED <<fuelEfficiency, vehicleType, isMetric, isCalculating, timers,
                 alert, screen, history, historyIsMetric, storeVars, queue, failures>>
  /\ UNCHANGED <<now, due, cleared>>

\* onChangeText={setFuelEfficiency}; the field is not rendered for E-bike
\* and Subway
SetFuelEfficiency ==
  /\ UserAtHome
  /\ vehicleType # "E-bike" /\ vehicleType # "Subway"
  /\ \E fe \in TypedEfficiency : fuelEfficiency' = fe
  /\ fuelEfficiency' # fuelEfficiency
  /\ emissions' = ResetEmissions(miles, fuelEfficiency', vehicleType, emissions)
  /\ actions' = actions + 1
  /\ UNCHANGED <<miles, vehicleType, isMetric, isCalculating, timers,
                 alert, screen, history, historyIsMetric, storeVars, queue, failures>>
  /\ UNCHANGED <<now, due, cleared>>

\* handleVehicleTypeChange, then the two effects
SelectVehicle ==
  /\ UserAtHome
  /\ \E ty \in PickedVehicles :
       /\ vehicleType' = ty
       /\ fuelEfficiency' = defaultFuelEfficiency(ty, isMetric)
  /\ emissions' = ResetEmissions(miles, fuelEfficiency', vehicleType', emissions)
  /\ actions' = actions + 1
  /\ UNCHANGED <<miles, isMetric, isCalculating, timers,
                 alert, screen, history, historyIsMetric, storeVars, queue, failures>>
  /\ UNCHANGED <<now, due, cleared>>

\* the conversion keeping one decimal
convertedDistance_OneDecimal(m, metric) ==
  LET distanceValue == parseFloat(m)
      converted == IF metric
                   THEN Over(distanceValue, Frac(160934, 100000))
                   ELSE Times(distanceValue, Frac(160934, 100000))
  IN  IF isNaN(distanceValue) THEN m
      ELSE IF converted.k # "fin" THEN toFixed2(converted)
      ELSE [t |-> "num", v |-> converted.s * RoundScaled(converted, 10) * 10]

\* handleToggleMeasurement: the distance field after the toggle, from km
\* to miles if the screen was metric and from miles to km otherwise
convertedDistance(m, metric) ==
  LET distanceValue == parseFloat(m)
      converted == IF metric
                   THEN Over(distanceValue, Frac(160934, 100000))
                   ELSE Times(distanceValue, Frac(160934, 100000))
  IN  IF ~isNaN(distanceValue) THEN toFixed2(converted) ELSE m

\* the toggle converting the efficiency in the field, as it does the
\* distance, instead of resetting it
ToggleMeasurement_Converts ==
  /\ UserAtHome
  /\ miles' = convertedDistance(miles, isMetric)
  /\ isMetric' = ~isMetric
  /\ fuelEfficiency' =
       IF isNaN(parseFloat(fuelEfficiency)) THEN fuelEfficiency
       ELSE toFixed2(Over(Frac(235214, 1000), parseFloat(fuelEfficiency)))
  /\ emissions' = ResetEmissions(miles', fuelEfficiency', vehicleType, emissions)
  /\ queue' = Append(queue, [k |-> "setIsMetric",
                             value |-> IF ~isMetric THEN "true" ELSE "false"])
  /\ actions' = actions + 1
  /\ UNCHANGED <<vehicleType, isCalculating, timers, alert, screen, history,
                 historyIsMetric, storeVars, failures, now, due, cleared>>

\* HomeScreen.handleToggleMeasurement, then the two effects
ToggleMeasurement ==
  /\ UserAtHome
  /\ miles' = convertedDistance(miles, isMetric)
  /\ isMetric' = ~isMetric
  /\ fuelEfficiency' = defaultFuelEfficiency(vehicleType, ~isMetric)
  /\ emissions' = ResetEmissions(miles', fuelEfficiency', vehicleType, emissions)
  /\ queue' = Append(queue, [k |-> "setIsMetric",
                             value |-> IF ~isMetric THEN "true" ELSE "false"])
  /\ actions' = actions + 1
  /\ UNCHANGED <<vehicleType, isCalculating, timers, alert, screen, history, historyIsMetric,
                 storeVars, failures>>
  /\ UNCHANGED <<now, due, cleared>>

\* calculateEmissions, after validation: the timer is set
StartCalculation(c) ==
  /\ timers' = Append(timers, c)
  /\ due' = Append(due, now + CalculationDelay)
  /\ isCalculating' = TRUE
  /\ cleared' = FALSE

\* the Calculate button left enabled while a calculation is pending
PressCalculate_NotDisabled ==
  /\ UserAtHome
  /\ LET v == validateInputs(Rendered)
     IN  IF v = "ok"
         THEN /\ StartCalculation(Rendered)
              /\ UNCHANGED alert
         ELSE /\ alert' = [kind |-> v, c |-> Rendered]
              /\ UNCHANGED <<timers, due, isCalculating, cleared>>
  /\ actions' = actions + 1
  /\ UNCHANGED <<homeForm, emissions, screen, history, historyIsMetric, storeVars, queue,
                 failures>>
  /\ UNCHANGED <<now>>

\* the Calculate button (disabled while isCalculating):
\* calculateEmissions(false)
PressCalculate ==
  /\ UserAtHome
  /\ ~isCalculating
  /\ LET v == validateInputs(Rendered)
     IN  IF v = "ok"
         THEN /\ StartCalculation(Rendered)
              /\ UNCHANGED alert
         ELSE /\ alert' = [kind |-> v, c |-> Rendered]
              /\ UNCHANGED <<timers, due, isCalculating, cleared>>
  /\ actions' = actions + 1
  /\ UNCHANGED <<homeForm, emissions, screen, history, historyIsMetric, storeVars, queue,
                 failures>>
  /\ UNCHANGED <<now>>

\* 'Continue' of the MPG Verification alert: calculateEmissions(true)
AlertContinue ==
  /\ alert.kind = "EfficiencySuspicious"
  /\ StartCalculation(alert.c)
  /\ alert' = NoAlert
  /\ UNCHANGED <<homeForm, emissions, screen, history, historyIsMetric, storeVars, queue,
                 actions, failures>>
  /\ UNCHANGED <<now>>

\* 'OK', 'Edit' or 'Cancel' of the alert on screen
AlertDismiss ==
  /\ alert.kind # "none"
  /\ alert' = NoAlert
  /\ UNCHANGED <<homeVars, screen, history, historyIsMetric, storeVars, queue, actions,
                 failures>>
  /\ UNCHANGED <<now, due, cleared>>

\* the callback publishing the result without saving a record
TimerFires_NoSave ==
  /\ timers # <<>>
  /\ emissions' = emissionsPerDay(Head(timers))
  /\ isCalculating' = FALSE
  /\ timers' = Tail(timers)
  /\ now' = IF Head(due) > now THEN Head(due) ELSE now
  /\ due' = Tail(due)
  /\ UNCHANGED <<homeForm, alert, screen, history, historyIsMetric, storeVars, queue, actions,
                 failures>>
  /\ UNCHANGED <<cleared>>

\* the setTimeout callback of calculateEmissions.  The clock moves only
\* here, to the time the timer is due: the least time that can pass between
\* two callbacks.
TimerFires ==
  /\ timers # <<>>
  /\ now' = IF Head(due) > now THEN Head(due) ELSE now
  /\ queue' = Append(queue, [k |-> "saveGet",
                             record |-> CalculationRecord(Head(timers), now')])
  /\ emissions' = queue'[Len(queue')].record.emissionsPerDay
  /\ isCalculating' = FALSE
  /\ timers' = Tail(timers)
  /\ due' = Tail(due)
  /\ UNCHANGED <<homeForm, alert, screen, history, historyIsMetric, storeVars, actions, failures>>
  /\ UNCHANGED <<cleared>>

\* HomeScreen's loadIsMetric (on mount): getItem resolves
HomeLoadIsMetric ==
  /\ queue # <<>> /\ Head(queue).k = "homeLoadIsMetric"
  /\ queue' = Tail(queue)
  /\ isMetric' = IF storedIsMetric # "null" THEN storedIsMetric = "true"
                 ELSE isMetric
  /\ fuelEfficiency' = IF isMetric' # isMetric
                       THEN defaultFuelEfficiency(vehicleType, isMetric')
                       ELSE fuelEfficiency
  /\ emissions' = ResetEmissions(miles, fuelEfficiency', vehicleType, emissions)
  /\ UNCHANGED <<miles, vehicleType, isCalculating, timers, alert, screen, history, historyIsMetric, storeVars,
                 actions, failures>>
  /\ UNCHANGED <<now, due, cleared>>

\* setItem('@is_metric') of a toggle resolves
SetIsMetricDone ==
  /\ queue # <<>> /\ Head(queue).k = "setIsMetric"
  /\ storedIsMetric' = Head(queue).value
  /\ queue' = Tail(queue)
  /\ UNCHANGED <<homeVars, alert, screen, history, historyIsMetric, storedHistory, actions,
                 failures>>
  /\ UNCHANGED <<now, due, cleared>>

(***************************************************************************)
(* saveCalculationRecord                                                   *)
(***************************************************************************)
\* existing ? JSON.parse(existing) : []
ParseHistory(stored) == IF stored.k = "absent" THEN <<>> ELSE stored.recs

\* getItem resolves: parse, push, call setItem; JSON.parse throws on a
\* corrupt text and the catch logs
SaveGetDone ==
  /\ queue # <<>> /\ Head(queue).k = "saveGet"
  /\ IF storedHistory.k = "corrupt"
     THEN queue' = Tail(queue)
     ELSE LET h == Append(ParseHistory(storedHistory), Head(queue).record)
          IN  queue' = Append(Tail(queue), [k |-> "saveSet", value |-> h])
  /\ UNCHANGED <<homeVars, alert, screen, history, historyIsMetric, storeVars, actions,
                 failures>>
  /\ UNCHANGED <<now, due, cleared>>

\* setItem resolves
SaveSetDone ==
  /\ queue # <<>> /\ Head(queue).k = "saveSet"
  /\ storedHistory' = [k |-> "list", recs |-> Head(queue).value]
  /\ queue' = Tail(queue)
  /\ UNCHANGED <<homeVars, alert, screen, history, historyIsMetric, storedIsMetric, actions,
                 failures>>
  /\ UNCHANGED <<now, due, cleared>>

\* a rejected call issued again by its caller
StoreRejects_Retry ==
  /\ queue # <<>>
  /\ failures < MaxFailures
  /\ failures' = failures + 1
  /\ queue' = Append(Tail(queue), Head(queue))
  /\ UNCHANGED <<homeVars, alert, screen, history, historyIsMetric, storeVars,
                 actions, now, due, cleared>>

\* any AsyncStorage call rejects: every caller catches and logs
StoreRejects ==
  /\ queue # <<>>
  /\ failures < MaxFailures
  /\ failures' = failures + 1
  /\ queue' = Tail(queue)
  /\ UNCHANGED <<homeVars, alert, screen, history, historyIsMetric, storeVars, actions>>
  /\ UNCHANGED <<now, due, cleared>>

(***************************************************************************)
(* History screen                                                          *)
(***************************************************************************)
RECURSIVE Reverse(_)
Reverse(s) == IF s = <<>> THEN <<>> ELSE Append(Reverse(Tail(s)), Head(s))

\* renderItem: item.emissionsUnit || 'lbs'
emissionsUnit(item) ==
  IF "emissionsUnit" \in DOMAIN item THEN item.emissionsUnit ELSE "lbs"

\* renderItem: the figure of displayDay, displayWeek and displayYear for
\* the stored text; formatNumber then groups the digits and drops trailing
\* zeros, which leaves the value of the numeral as it is
displayMass(item, text, metric) ==
  LET num == parseFloat(text)
  IN  IF metric
      THEN toFixed2(IF emissionsUnit(item) = "kg" THEN num
                    ELSE Times(num, Frac(453592, 1000000)))
      ELSE toFixed2(IF emissionsUnit(item) = "lbs" THEN num
                    ELSE Over(num, Frac(453592, 1000000)))

displayDay(item, metric)  == displayMass(item, item.emissionsPerDay, metric)
displayWeek(item, metric) == displayMass(item, item.emissionsPerWeek, metric)
displayYear(item, metric) == displayMass(item, item.emissionsPerYear, metric)

\* the History tab gets the focus: useFocusEffect calls loadIsMetric and
\* loadHistory
FocusHistory ==
  /\ UserAtHome
  /\ screen' = "History"
  /\ queue' = queue \o <<[k |-> "historyLoadIsMetric"], [k |-> "loadHistory"]>>
  /\ actions' = actions + 1
  /\ UNCHANGED <<homeVars, alert, history, historyIsMetric, storeVars, failures>>
  /\ UNCHANGED <<now, due, cleared>>

FocusHome ==
  /\ screen = "History" /\ alert = NoAlert
  /\ screen' = "Home"
  /\ UNCHANGED <<homeVars, alert, history, historyIsMetric, storeVars, queue, actions,
                 failures>>
  /\ UNCHANGED <<now, due, cleared>>

\* HistoryScreen's loadIsMetric: getItem resolves
HistoryLoadIsMetric ==
  /\ queue # <<>> /\ Head(queue).k = "historyLoadIsMetric"
  /\ queue' = Tail(queue)
  /\ historyIsMetric' = IF storedIsMetric # "null" THEN storedIsMetric = "true"
                        ELSE historyIsMetric
  /\ UNCHANGED <<homeVars, alert, screen, history, storeVars, actions,
                 failures>>
  /\ UNCHANGED <<now, due, cleared>>

\* HistoryScreen's handleToggleMeasurement
HistoryToggleMeasurement ==
  /\ screen = "History" /\ alert = NoAlert /\ actions < MaxActions
  /\ historyIsMetric' = ~historyIsMetric
  /\ queue' = Append(queue, [k |-> "setIsMetric",
                             value |-> IF historyIsMetric' THEN "true"
                                       ELSE "false"])
  /\ actions' = actions + 1
  /\ UNCHANGED <<homeVars, alert, screen, history, storeVars, failures>>
  /\ UNCHANGED <<now, due, cleared>>

\* loadHistory showing the list in the order of the store
LoadHistoryDone_InsertionOrder ==
  /\ queue # <<>> /\ Head(queue).k = "loadHistory"
  /\ history' = IF storedHistory.k = "corrupt" THEN history
                ELSE IF storedHistory.k # "absent"
                THEN storedHistory.recs ELSE <<>>
  /\ queue' = Tail(queue)
  /\ UNCHANGED <<homeVars, alert, screen, historyIsMetric, storeVars, actions,
                 failures, now, due, cleared>>

\* loadHistory: getItem resolves; JSON.parse throws on a corrupt text and
\* the catch logs
LoadHistoryDone ==
  /\ queue # <<>> /\ Head(queue).k = "loadHistory"
  /\ history' = IF storedHistory.k = "corrupt" THEN history
                ELSE IF storedHistory.k # "absent"
                THEN Reverse(storedHistory.recs) ELSE <<>>
  /\ queue' = Tail(queue)
  /\ UNCHANGED <<homeVars, alert, screen, historyIsMetric, storeVars, actions,
                 failures>>
  /\ UNCHANGED <<now, due, cleared>>

\* the Clear History button removing the log without asking
PressClear_NoConfirm ==
  /\ screen = "History" /\ alert = NoAlert /\ actions < MaxActions
  /\ Len(history) > 0
  /\ queue' = Append(queue, [k |-> "removeHistory"])
  /\ actions' = actions + 1
  /\ UNCHANGED <<homeVars, alert, screen, history, historyIsMetric, storeVars,
                 failures, now, due, cleared>>

\* clearHistory: the button (shown when the list is not empty) asks first
PressClear ==
  /\ screen = "History" /\ alert = NoAlert /\ actions < MaxActions
  /\ Len(history) > 0
  /\ alert' = [kind |-> "ClearHistory", c |-> null]
  /\ actions' = actions + 1
  /\ UNCHANGED <<homeVars, screen, history, historyIsMetric, storeVars, queue, failures>>
  /\ UNCHANGED <<now, due, cleared>>

\* 'Clear' of the confirmation: removeItem is called
ClearConfirm ==
  /\ alert.kind = "ClearHistory"
  /\ alert' = NoAlert
  /\ queue' = Append(queue, [k |-> "removeHistory"])
  /\ UNCHANGED <<homeVars, screen, history, historyIsMetric, storeVars, actions, failures>>
  /\ UNCHANGED <<now, due, cleared>>

\* the clear removing every entry of the store
ClearDone_AllKeys ==
  /\ queue # <<>> /\ Head(queue).k = "removeHistory"
  /\ storedHistory' = Absent
  /\ storedIsMetric' = "null"
  /\ history' = <<>>
  /\ cleared' = TRUE
  /\ queue' = Tail(queue)
  /\ UNCHANGED <<homeVars, alert, screen, historyIsMetric, actions, failures,
                 now, due>>

\* removeItem resolves: setHistory([])
ClearDone ==
  /\ queue # <<>> /\ Head(queue).k = "removeHistory"
  /\ storedHistory' = Absent
  /\ history' = <<>>
  /\ cleared' = TRUE
  /\ queue' = Tail(queue)
  /\ UNCHANGED <<homeVars, alert, screen, historyIsMetric, storedIsMetric,
                 actions, failures>>
  /\ UNCHANGED <<now, due>>

Next ==
  \/ SetMiles \/ SetFuelEfficiency \/ SelectVehicle \/ ToggleMeasurement
  \/ PressCalculate \/ AlertContinue \/ AlertDismiss \/ TimerFires
  \/ HomeLoadIsMetric \/ SetIsMetricDone
  \/ SaveGetDone \/ SaveSetDone \/ StoreRejects
  \/ FocusHistory \/ FocusHome \/ LoadHistoryDone
  \/ HistoryLoadIsMetric \/ HistoryToggleMeasurement
  \/ PressClear \/ ClearConfirm \/ ClearDone

Spec == Init /\ [][Next]_vars

\* a step that runs the callback of the first pending timer
TimerCallbackRuns == timers # <<>> /\ timers' = Tail(timers)

\* The event loop runs the callback of a timer that is due: nothing clears
\* a timer and the Home screen stays mounted under the tabs.
SpecLive == Init /\ [][Next]_vars /\ WF_timers(TimerCallbackRuns)

(***************************************************************************)
(* The application launched over the store of an earlier session: the      *)
(* preference is Metric and '@calculation_history' holds one record, or a  *)
(* text that is not JSON.                                                  *)
(***************************************************************************)
\* the record of a calculation of the earlier session
StoredRecord ==
  CalculationRecord(Closure(Num(1000), Num(2300), "SUV", FALSE),
                    CalculationDelay)

InitStored ==
  /\ miles = Num(3500)
  /\ vehicleType = defaultVehicleType
  /\ isMetric = FALSE
  /\ fuelEfficiency = defaultFuelEfficiency(defaultVehicleType, FALSE)
  /\ emissions = null
  /\ isCalculating = FALSE
  /\ timers = <<>>
  /\ alert = NoAlert
  /\ screen = "Home"
  /\ history = <<>>
  /\ historyIsMetric = FALSE
  /\ storedIsMetric = "true"
  /\ storedHistory \in {[k |-> "list", recs |-> <<StoredRecord>>], Corrupt}
  /\ queue = <<[k |-> "homeLoadIsMetric"]>>
  /\ now = 100 * CalculationDelay
  /\ due = <<>>
  /\ cleared = FALSE
  /\ actions = 0
  /\ failures = 0

SpecStored == InitStored /\ [][Next]_vars

(***************************************************************************)
(* The calculation on its own: validateInputs and calculateEmissions       *)
(* applied to inputs drawn from bounded sets.  The form is filled in       *)
(* before the first step and is not edited afterwards, so every closure    *)
(* of a behaviour of SpecEngine holds the four values of the form.         *)
(***************************************************************************)
EngineMiles ==
  {EmptyText, OtherText, Num(0), Num(-500), Num(1), Num(1000), Num(3500),
   Num(12345)}
EngineEfficiency ==
  {EmptyText, OtherText, Num(0), Num(850), Num(1372), Num(1960), Num(2300),
   Num(15000), Num(15001)}
EngineVehicles == {"SUV", "Hybrid Car", "Bus", "E-bike", "Subway"}

\* Bound of SpecEngine: the calculation requests made on one form
MaxRequests == 2

InitEngine ==
  /\ miles \in EngineMiles
  /\ fuelEfficiency \in EngineEfficiency
  /\ vehicleType \in EngineVehicles
  /\ isMetric \in BOOLEAN
  /\ emissions = null
  /\ isCalculating = FALSE
  /\ timers = <<>>
  /\ alert = NoAlert
  /\ screen = "Home"
  /\ history = <<>>
  /\ historyIsMetric = FALSE
  /\ storedIsMetric = IF isMetric THEN "true" ELSE "null"
  /\ storedHistory = Absent
  /\ queue = <<>>
  /\ now = 0
  /\ due = <<>>
  /\ cleared = FALSE
  /\ actions = MaxActions - MaxRequests
  /\ failures = 0

NextEngine ==
  \/ PressCalculate \/ AlertContinue \/ AlertDismiss \/ TimerFires
  \/ SaveGetDone \/ SaveSetDone \/ StoreRejects

SpecEngine == InitEngine /\ [][NextEngine]_vars

(***************************************************************************)
(* The unit toggle on its own: handleToggleMeasurement applied again and   *)
(* again to a distance drawn from 0.01 .. MaxHundredths/100 and a few      *)
(* larger values, starting from either unit system.                        *)
(***************************************************************************)
MaxHundredths == 250

UnitDistances ==
  {Num(v) : v \in 1..MaxHundredths} \cup
  {Num(3500), Num(5633), Num(100000), Num(999999), Num(12345678)}

InitUnits ==
  /\ miles \in UnitDistances
  /\ vehicleType = defaultVehicleType
  /\ isMetric \in BOOLEAN
  /\ fuelEfficiency = defaultFuelEfficiency(defaultVehicleType, isMetric)
  /\ emissions = null
  /\ isCalculating = FALSE
  /\ timers = <<>>
  /\ alert = NoAlert
  /\ screen = "Home"
  /\ history = <<>>
  /\ historyIsMetric = FALSE
  /\ storedIsMetric = IF isMetric THEN "true" ELSE "null"
  /\ storedHistory = Absent
  /\ queue = <<>>
  /\ now = 0
  /\ due = <<>>
  /\ cleared = FALSE
  /\ actions = 0
  /\ failures = 0

NextUnits == ToggleMeasurement \/ SetIsMetricDone \/ StoreRejects

SpecUnits == InitUnits /\ [][NextUnits]_vars

(***************************************************************************)
(* The figures the screens derive when they render                         *)
(***************************************************************************)
\* x < c/100 for a parsed text x; any comparison with NaN is false
Lt(x, c) ==
  \/ x.k = "inf" /\ x.s = -1
  \/ x.k = "fin" /\ x.s * x.n[1] * 100 < c * x.d[1]

\* x.toFixed(0): the text of x rounded to a whole number
toFixed0(x) ==
  IF x.k = "nan" THEN [t |-> "NaN", v |-> 0]
  ELSE IF x.k = "inf" THEN [t |-> "Infinity", v |-> x.s]
  ELSE [t |-> "num", v |-> x.s * RoundScaled(x, 1) * 100]

\* HomeScreen: the figures shown with the result, from the published text
dailyEmissions == IF emissions # null THEN parseFloat(emissions) ELSE Frac(0, 1)
weeklyEmissions ==
  IF emissions # null THEN toFixed0(Times(dailyEmissions, Frac(5, 1))) ELSE null
yearlyEmissions ==
  IF emissions # null
  THEN toFixed0(Times(Times(dailyEmissions, Frac(5, 1)), Frac(52, 1)))
  ELSE null
yearlyCarbonCredits ==
  IF emissions # null
  THEN toFixed2(Over(Times(Times(dailyEmissions, Frac(5, 1)), Frac(52, 1)),
                     IF isMetric THEN Frac(1000, 1) ELSE Frac(220462, 100)))
  ELSE null

\* getEmissionsImpact with the thresholds counted to the lower level
getEmissionsImpact_Inclusive(e) ==
  IF ~Gt(e, 1000) /\ ~isNaN(e) THEN "Low"
  ELSE IF ~Gt(e, 5000) /\ ~isNaN(e) THEN "Moderate"
  ELSE "High"

\* getEmissionsImpact
getEmissionsImpact(e) ==
  IF Lt(e, 1000) THEN "Low"
  ELSE IF Lt(e, 5000) THEN "Moderate"
  ELSE "High"

\* HistoryScreen renderItem: yearKg and carbonCredits of a record
yearKg(item) ==
  LET yearNum == parseFloat(item.emissionsPerYear)
  IN  IF emissionsUnit(item) = "kg" THEN yearNum
      ELSE Times(yearNum, Frac(453592, 1000000))
carbonCredits(item) == toFixed2(Over(yearKg(item), Frac(1000, 1)))

(***************************************************************************)
(* Properties                                                              *)
(***************************************************************************)
\* q is an integer nearest to (n1 * ... * nk) / (d1 * ... * dm)
IsNearest(q, nf, df) ==
  LET N2  == BigMulSmall(BigProd(nf), 2, 0)
      Dn  == BigProd(df)
      qD2 == BigMulSmall(BigMulSmall(Dn, q, 0), 2, 0)
  IN  /\ BigLe(qD2, BigAdd(N2, Dn, 0))
      /\ BigLe(N2, BigAdd(qD2, Dn, 0))

\* the text is a non-negative numeral, in hundredths a nearest integer to
\* the product of nf over the product of df
IsRounded(text, nf, df) ==
  text.t = "num" /\ text.v >= 0 /\ IsNearest(text.v, nf, df)

Combustion(ty) == ty \notin {"Bus", "E-bike", "Subway"}
Positive(text) == text.t = "num" /\ text.v > 0

\* the records handed to saveCalculationRecord and not yet written, and
\* the records of the persisted log
IssuedRecords ==
  {queue[i].record : i \in {j \in DOMAIN queue : queue[j].k = "saveGet"}}
PersistedRecords == {storedHistory.recs[i] : i \in DOMAIN storedHistory.recs}

\* the published daily value and every record carry day, week = 5 day and
\* year = 260 day, each rounded on its own, of the daily value nf / df
\* (in hundredths)
ResultsAre(nf, df) ==
  /\ emissions # null => IsRounded(emissions, nf, df)
  /\ \A x \in {<<r.emissionsPerDay, r.emissionsPerWeek, r.emissionsPerYear>> :
                r \in IssuedRecords \cup PersistedRecords} :
       /\ IsRounded(x[1], nf, df)
       /\ IsRounded(x[2], nf \o <<5>>, df)
       /\ IsRounded(x[3], nf \o <<260>>, df)

\* C1: combustion type, Imperial, distance d > 0 and efficiency m > 0:
\* day = (d/m) * 19.6 lbs, week = 5 day, year = 260 day, week and year from
\* the unrounded day, each rounded to 2 decimals; the record persists them.
C1_ImperialCombustion ==
  (~isMetric /\ Combustion(vehicleType) /\ Positive(miles)
     /\ Positive(fuelEfficiency))
  => ResultsAre(<<miles.v, 100, 196, 100>>, <<100, fuelEfficiency.v, 10>>)

C1_Witness ==
  /\ ~isMetric /\ vehicleType = "SUV"
  /\ miles = Num(3500) /\ fuelEfficiency = Num(2300)
  /\ emissions = Num(2983)
  /\ \E r \in PersistedRecords :
       /\ r.emissionsPerDay = Num(2983)
       /\ r.emissionsPerWeek = Num(14913)
       /\ r.emissionsPerYear = Num(775478)

\* C2: combustion type, Metric, distance d km and efficiency c L/100 km:
\* miles = d / 1.60934, mpg = 235.214 / c, day = (miles / mpg) * 19.6 lbs;
\* day, 5 day and 260 day are each multiplied by 0.453592 and rounded to
\* 2 decimals.
C2_MetricCombustion ==
  (isMetric /\ Combustion(vehicleType) /\ Positive(miles)
     /\ Positive(fuelEfficiency))
  => ResultsAre(<<miles.v, 100000, fuelEfficiency.v, 1000, 196, 453592, 100>>,
                <<100, 160934, 100, 235214, 10, 1000000>>)

C2_Witness ==
  /\ isMetric /\ vehicleType = "SUV"
  /\ miles = Num(3500) /\ fuelEfficiency = Num(850)
  /\ \E r \in PersistedRecords :
       /\ r.emissionsPerDay = Num(699)
       /\ r.emissionsPerWeek = Num(3494)
       /\ r.emissionsPerYear = Num(181665)

\* the daily value of an E-bike or Subway, in hundredths of the unit
ElectricDaily(mpge) ==
  IF isMetric
  THEN [n |-> <<miles.v, 100000, 337, 92, 453592, 100>>,
        d |-> <<100, 160934, 10, mpge, 100, 1000000>>]
  ELSE [n |-> <<miles.v, 337, 92, 100>>, d |-> <<100, 10, mpge, 100>>]

\* C3: E-bike and Subway: whatever the efficiency field holds, a request
\* with a valid distance raises no alert and the day value is
\* miles * (33.7 / MPGe) * 0.92 lbs, with 842 MPGe for E-bike and 198 for
\* Subway.
C3_ElectricIgnoresEfficiency ==
  (vehicleType \in {"E-bike", "Subway"} /\ Positive(miles))
  => /\ alert = NoAlert
     /\ LET x == ElectricDaily(IF vehicleType = "E-bike" THEN 842 ELSE 198)
        IN  ResultsAre(x.n, x.d)

C3_Witness ==
  /\ ~isMetric /\ vehicleType = "E-bike" /\ miles = Num(1000)
  /\ fuelEfficiency = EmptyText
  /\ emissions = Num(37)
  /\ \E r \in PersistedRecords : r.emissionsPerDay = Num(37)

\* C4: Bus: day = miles * (22.45 / 6 / 15) lbs per person, week = 5 day,
\* year = 260 day from the unrounded day, each rounded to 2 decimals, times
\* 0.453592 under Metric; 10 miles under Imperial give 2.49.
C4_Bus ==
  (vehicleType = "Bus" /\ Positive(miles))
  => IF isMetric
     THEN ResultsAre(<<miles.v, 100000, 2245, 453592, 100>>,
                     <<100, 160934, 100, 6, 15, 1000000>>)
     ELSE ResultsAre(<<miles.v, 2245, 100>>, <<100, 100, 6, 15>>)

C4_Witness ==
  /\ ~isMetric /\ vehicleType = "Bus" /\ miles = Num(1000)
  /\ emissions = Num(249)
  /\ \E r \in PersistedRecords :
       /\ r.emissionsPerDay = Num(249)
       /\ r.emissionsPerWeek = Num(1247)
       /\ r.emissionsPerYear = Num(64856)

\* what a rejected request leaves alone: the form, the pending state, the
\* result, the store and the calls made to it
RequestLeaves ==
  UNCHANGED <<miles, fuelEfficiency, vehicleType, isMetric, emissions,
              isCalculating, timers, storedIsMetric, storedHistory, queue,
              history, historyIsMetric>>

\* C5: a request whose distance does not parse to a number > 0 is rejected
\* with InvalidDistance: no pending state, no result, no record, and the
\* form and the stored preference are unchanged.
C5_InvalidDistanceRejected ==
  [][/\ (PressCalculate /\ ~Positive(miles))
          => (alert'.kind = "InvalidDistance" /\ RequestLeaves)
     /\ \A i \in DOMAIN timers' : Positive(timers'[i].miles)]_vars

C5_Witness ==
  /\ alert.kind = "InvalidDistance" /\ miles = Num(0)
  /\ ~isCalculating /\ timers = <<>> /\ emissions = null /\ queue = <<>>
  /\ storedHistory = Absent

\* C6: for a combustion type a request whose efficiency does not parse to
\* a number > 0 is rejected with InvalidEfficiency under either unit
\* system; no calculation ever runs on such an efficiency.
C6_InvalidEfficiencyRejected ==
  [][/\ (PressCalculate /\ Positive(miles) /\ Combustion(vehicleType)
           /\ ~Positive(fuelEfficiency))
          => (alert'.kind = "InvalidEfficiency" /\ RequestLeaves)
     /\ \A i \in DOMAIN timers' :
          Combustion(timers'[i].vehicleType)
            => Positive(timers'[i].fuelEfficiency)]_vars

C6_Witness ==
  /\ alert.kind = "InvalidEfficiency" /\ isMetric
  /\ Combustion(vehicleType) /\ fuelEfficiency = Num(0)
  /\ ~isCalculating /\ timers = <<>> /\ emissions = null /\ queue = <<>>

\* C7: for Bus the efficiency input is ignored: a Bus request with a valid
\* distance is accepted whatever the efficiency field holds (no
\* InvalidEfficiency rejection, no EfficiencySuspicious warning).
C7_BusIgnoresEfficiency ==
  (vehicleType = "Bus" /\ Positive(miles)) => alert = NoAlert

\* C8, as stated: under Imperial units every request with a parsed
\* efficiency above 150 is flagged EfficiencySuspicious and does not start.
C8_EveryTypeFlagged ==
  [][(PressCalculate /\ ~isMetric /\ Positive(miles)
        /\ Positive(fuelEfficiency) /\ fuelEfficiency.v > 15000)
       => (alert'.kind = "EfficiencySuspicious" /\ ~isCalculating')]_vars

\* C8, amended: under Imperial units a request for a combustion type with
\* a parsed efficiency above 150 MPG is flagged EfficiencySuspicious and
\* starts nothing; Continue starts the calculation on the same inputs and
\* its result, published and saved, is the engine's for them; Edit changes
\* nothing; exactly 150 starts the calculation without a warning.
C8_SoftWarning ==
  [][/\ (PressCalculate /\ ~isMetric /\ Positive(miles)
           /\ Combustion(vehicleType) /\ Positive(fuelEfficiency)
           /\ fuelEfficiency.v > 15000)
          => (alert' = [kind |-> "EfficiencySuspicious", c |-> Rendered]
              /\ RequestLeaves)
     /\ (PressCalculate /\ ~isMetric /\ Positive(miles)
           /\ Combustion(vehicleType) /\ fuelEfficiency = Num(15000))
          => (alert' = NoAlert /\ isCalculating'
              /\ timers' = Append(timers, Rendered))
     /\ AlertContinue
          => (isCalculating' /\ timers' = Append(timers, Rendered)
              /\ UNCHANGED <<homeForm, emissions, storeVars, queue>>)
     /\ (AlertDismiss /\ alert.kind = "EfficiencySuspicious")
          => RequestLeaves
     /\ (Len(timers') < Len(timers) /\ ~Head(timers).isMetric
           /\ Combustion(Head(timers).vehicleType)
           /\ Head(timers).fuelEfficiency.v > 15000)
          => LET c  == Head(timers)
                 nf == <<c.miles.v, 100, 196, 100>>
                 df == <<100, c.fuelEfficiency.v, 10>>
                 r  == queue'[Len(queue')].record
             IN  /\ IsRounded(emissions', nf, df)
                 /\ queue'[Len(queue')].k = "saveGet"
                 /\ r.emissionsPerDay = emissions'
                 /\ IsRounded(r.emissionsPerWeek, nf \o <<5>>, df)
                 /\ IsRounded(r.emissionsPerYear, nf \o <<260>>, df)
                 /\ r.fuelEfficiency = c.fuelEfficiency
                 /\ r.vehicleType = c.vehicleType]_vars

C8_Witness ==
  \E r \in PersistedRecords :
    /\ r.vehicleType = "SUV" /\ r.fuelEfficiency = Num(20000)
    /\ r.miles = Num(3500) /\ r.emissionsPerDay = Num(343)

CountOps(q, kind) == Cardinality({i \in DOMAIN q : q[i].k = kind})

\* C9: each calculation that completes issues exactly one append of one
\* record, carrying its day/week/year values, and that append writes the
\* record once; no other step (a rejected or dismissed request among them)
\* issues an append or publishes a result.
C9_OneRecordPerCalculation ==
  [][/\ Len(timers') < Len(timers)
          => /\ queue' = Append(queue, queue'[Len(queue')])
             /\ queue'[Len(queue')].k = "saveGet"
             /\ queue'[Len(queue')].record =
                  CalculationRecord(Head(timers), now')
             /\ queue'[Len(queue')].record.emissionsPerDay = emissions'
     /\ Len(timers') >= Len(timers)
          => /\ CountOps(queue', "saveGet") <= CountOps(queue, "saveGet")
             /\ emissions' \in {emissions, null}
     /\ CountOps(queue', "saveSet") > CountOps(queue, "saveSet")
          => /\ Head(queue).k = "saveGet"
             /\ queue' = Append(Tail(queue), queue'[Len(queue')])
             /\ queue'[Len(queue')].value =
                  Append(ParseHistory(storedHistory), Head(queue).record)
     /\ storedHistory' # storedHistory
          => \/ Head(queue).k = "saveSet" /\ queue' = Tail(queue)
                  /\ storedHistory'.recs = Head(queue).value
             \/ Head(queue).k = "removeHistory"]_vars

C9_Witness ==
  /\ Len(storedHistory.recs) = 2 /\ timers = <<>> /\ queue = <<>>
  /\ storedHistory.recs[1] # storedHistory.recs[2]

IsPrefix(a, b) == Len(a) <= Len(b) /\ SubSeq(b, 1, Len(a)) = a

\* C10: the record log is append-only: across every step the persisted log
\* keeps its records, unchanged and in order, unless the step is the
\* removal of a confirmed clear-all.
C10_AppendOnly ==
  [][\/ IsPrefix(ParseHistory(storedHistory), ParseHistory(storedHistory'))
     \/ (Head(queue).k = "removeHistory" /\ storedHistory' = Absent)]_vars

\* C11: once a confirmed clear has completed, a listing that no
\* calculation started after the clear precedes returns no records, also
\* when the save of an earlier calculation overlaps the clear.
C11_ClearThenListEmpty ==
  [][(cleared /\ queue # <<>> /\ Head(queue).k = "loadHistory"
        /\ queue' = Tail(queue))
       => history' = <<>>]_vars

\* C12: the getItem of an append that resolves (is not rejected) with an
\* absent or a corrupt stored list is followed by the setItem of a list
\* holding exactly the new record.
C12_CorruptAsEmpty ==
  [][(queue # <<>> /\ Head(queue).k = "saveGet"
        /\ IsPrefix(Tail(queue), queue') /\ ~IsPrefix(queue, queue')
        /\ failures' = failures /\ storedHistory.k \in {"absent", "corrupt"})
       => queue' = Append(Tail(queue),
                          [k |-> "saveSet", value |-> <<Head(queue).record>>])
    ]_vars

\* C13: a record carries the unit of its emissions, so that History shows
\* the same mass under either unit system: a record computed under Metric
\* shows its stored kg figures under Metric and those divided by 0.453592
\* under Imperial; one computed under Imperial shows its stored lbs figures
\* under Imperial and those times 0.453592 under Metric.
C13_UnitPerRecord ==
  [][Len(timers') < Len(timers)
       => LET r  == queue'[Len(queue')].record
              kg == Frac(453592, 1000000)
          IN  IF Head(timers).isMetric
              THEN /\ displayDay(r, TRUE) = r.emissionsPerDay
                   /\ displayWeek(r, TRUE) = r.emissionsPerWeek
                   /\ displayYear(r, TRUE) = r.emissionsPerYear
                   /\ displayDay(r, FALSE) =
                        toFixed2(Over(parseFloat(r.emissionsPerDay), kg))
              ELSE /\ displayDay(r, FALSE) = r.emissionsPerDay
                   /\ displayWeek(r, FALSE) = r.emissionsPerWeek
                   /\ displayYear(r, FALSE) = r.emissionsPerYear
                   /\ displayDay(r, TRUE) =
                        toFixed2(Times(parseFloat(r.emissionsPerDay), kg))
    ]_vars

\* C14: every record stores its distance in miles: the entered value to 2
\* decimals if the calculation ran under Imperial, the entered value
\* divided by 1.60934 to 2 decimals if it ran under Metric, and its
\* emissions are computed under that same unit system.
C14_DistanceInMiles ==
  \A x \in {<<r.miles, r.emissionsPerDay>> :
              r \in IssuedRecords \cup PersistedRecords} :
    /\ IF isMetric
       THEN IsRounded(x[1], <<miles.v, 100000, 100>>, <<100, 160934>>)
       ELSE x[1] = miles
    /\ x[2] = emissionsPerDay(Rendered)

C14_Witness ==
  /\ isMetric /\ miles = Num(3500)
  /\ \E r \in PersistedRecords : r.miles = Num(2175)
  /\ \E r \in IssuedRecords : r.miles = Num(2175)

\* C15: once the pending store calls have finished (none of them having
\* been rejected), the unit system of the Home screen, that of the focused
\* History screen and the persisted flag (absent meaning Imperial) are equal.
C15_SinglePreference ==
  (queue = <<>> /\ failures = 0)
  => /\ isMetric = (storedIsMetric = "true")
     /\ screen = "History" => historyIsMetric = isMetric

\* C16: a store failure never blocks the calculation flow: the rejected
\* read or write of an append changes nothing of the Home screen and is
\* not issued again; a calculation publishes its result and ends the
\* pending state when its timer fires, whatever the store did before; and
\* a valid request is accepted whatever has failed.
C16_StoreFailureNeverBlocks ==
  [][/\ failures' > failures
          => (UNCHANGED <<homeVars, alert, storeVars>> /\ queue' = Tail(queue))
     /\ Len(timers') < Len(timers)
          => (emissions' = emissionsPerDay(Head(timers)) /\ ~isCalculating')
     /\ timers' = <<>> => ~isCalculating'
     /\ (PressCalculate /\ validateInputs(Rendered) = "ok")
          => (isCalculating' /\ timers' = <<Rendered>>)
     /\ CountOps(queue', "saveGet") + CountOps(queue', "saveSet")
          > CountOps(queue, "saveGet") + CountOps(queue, "saveSet")
          => Len(timers') < Len(timers)]_vars

C16_Witness ==
  /\ failures = 1 /\ storedHistory = Absent /\ queue = <<>>
  /\ emissions = Num(2983) /\ isCalculating /\ timers # <<>>

\* C17: when the History screen has loaded, the list it displays holds
\* exactly the records of the persisted log in the reverse of their
\* insertion order, and loading leaves the persisted log as it was.
C17_MostRecentFirst ==
  [][(queue # <<>> /\ Head(queue).k = "loadHistory" /\ queue' = Tail(queue)
        /\ failures' = failures)
       => LET log == storedHistory.recs
          IN  /\ Len(history') = Len(log)
              /\ \A i \in 1..Len(log) : history'[i] = log[Len(log) + 1 - i]
              /\ UNCHANGED storeVars]_vars

C17_Witness ==
  /\ screen = "History" /\ Len(history) = 2 /\ Len(storedHistory.recs) = 2
  /\ history[1] = storedHistory.recs[2] /\ history[2] = storedHistory.recs[1]
  /\ history[1].id > history[2].id

\* C18: the records of the persisted log have pairwise distinct ids, each
\* id being the time, in milliseconds, at which its calculation completed.
C18_UniqueIds ==
  /\ \A i, j \in DOMAIN storedHistory.recs :
       i # j => storedHistory.recs[i].id # storedHistory.recs[j].id
  /\ \A r \in IssuedRecords \cup PersistedRecords :
       /\ r.id <= now
       /\ \A q \in IssuedRecords : q # r => q.id # r.id
  /\ Len(timers) <= 1 /\ Len(due) = Len(timers)

C18_Witness ==
  /\ Len(storedHistory.recs) = 2
  /\ storedHistory.recs[1].id = CalculationDelay
  /\ storedHistory.recs[2].id = 2 * CalculationDelay
  /\ storedHistory.recs[1].emissionsPerDay = storedHistory.recs[2].emissionsPerDay
  /\ storedHistory.recs[1].miles = storedHistory.recs[2].miles

\* C19: for a valid distance with at most 2 decimals, under either unit
\* system, switching the unit system and switching back gives a distance
\* within 0.01 of the original.
C19_ToggleRoundTrip ==
  [][(ToggleMeasurement /\ Positive(miles))
       => LET back == convertedDistance(miles', isMetric')
          IN  /\ Positive(miles')
              /\ back.t = "num"
              /\ Abs(back.v - miles.v) <= 1]_vars

C19_Witness ==
  /\ actions = 2 /\ ~isMetric /\ miles = Num(3500)
  /\ queue = <<>> /\ storedIsMetric = "false"

\* the scenario: 35 miles, SUV at its default 23 MPG, Imperial
Scenario ==
  /\ miles = Num(3500) /\ vehicleType = "SUV" /\ ~isMetric
  /\ fuelEfficiency = defaultFuelEfficiency("SUV", FALSE)

\* C20, as stated: the scenario gives day 29.83, week 149.17 and year
\* 7756.87.
C20_ScenarioAsStated ==
  Scenario
  => \A r \in IssuedRecords \cup PersistedRecords :
       /\ r.emissionsPerDay = Num(2983)
       /\ r.emissionsPerWeek = Num(14917)
       /\ r.emissionsPerYear = Num(775687)

\* C20, amended: the scenario gives day 29.83, week 149.13 and year
\* 7754.78, each rounded to 2 decimals from the unrounded daily rate
\* (35 / 23) * 19.6.
C20_Scenario ==
  Scenario
  => /\ emissions \in {null, Num(2983)}
     /\ \A r \in IssuedRecords \cup PersistedRecords :
          /\ r.emissionsPerDay = Num(2983)
          /\ r.emissionsPerWeek = Num(14913)
          /\ r.emissionsPerYear = Num(775478)
     /\ IsNearest(14913, <<35, 196, 5, 100>>, <<23, 10>>)
     /\ IsNearest(775478, <<35, 196, 260, 100>>, <<23, 10>>)

C20_Witness ==
  /\ Scenario /\ emissions = Num(2983) /\ ~isCalculating
  /\ \E r \in IssuedRecords :
       r.emissionsPerWeek = Num(14913) /\ r.emissionsPerYear = Num(775478)


\* the yearly emissions of the form's inputs, 260 times the unrounded
\* daily rate, in metric tons: kg / 1000, lbs / 2204.62
YearlyTons ==
  Over(inUnit(Rendered, Times(dayLbs(Rendered), Frac(260, 1))),
       IF isMetric THEN Frac(1000, 1) ELSE Frac(220462, 100))

\* C21: the carbon-credit count shown with a result, and the one shown
\* with each record of the calculation, is the yearly emissions (260 times
\* the unrounded daily rate) in kg divided by 1000, i.e. yearly lbs /
\* 2204.62 under Imperial and yearly kg / 1000 under Metric, rounded to 2
\* decimals.
C21_CarbonCredits ==
  /\ emissions # null
       => IsRounded(yearlyCarbonCredits, YearlyTons.n \o <<100>>, YearlyTons.d)
  /\ \A r \in PersistedRecords :
       IsRounded(carbonCredits(r), YearlyTons.n \o <<100>>, YearlyTons.d)


\* C22: the impact level shown with a result is Low exactly when the
\* per-day figure is below 10, Moderate exactly when it is at least 10 and
\* below 50, High exactly when it is at least 50, the figure being the one
\* displayed (lbs under Imperial, kg under Metric) and the thresholds the
\* same under both unit systems.
C22_ImpactLevel ==
  (emissions # null /\ emissions.t = "num")
  => LET level == getEmissionsImpact(dailyEmissions)
     IN  /\ level = "Low" <=> emissions.v < 1000
         /\ level = "Moderate" <=> (1000 <= emissions.v /\ emissions.v < 5000)
         /\ level = "High" <=> emissions.v >= 5000

C22_Witness ==
  /\ emissions = Num(1000) /\ ~isMetric
  /\ getEmissionsImpact(dailyEmissions) = "Moderate"


\* C23: the weekly and yearly figures shown with a result come from the
\* unrounded daily rate: each is within the display's rounding to whole
\* units (half a unit) of the weekly and yearly value of the calculation's
\* record.
C23_DisplayFromUnrounded ==
  emissions # null
  => \A r \in IssuedRecords \cup PersistedRecords :
       /\ weeklyEmissions.t = "num" /\ yearlyEmissions.t = "num"
       /\ Abs(weeklyEmissions.v - r.emissionsPerWeek.v) <= 50
       /\ Abs(yearlyEmissions.v - r.emissionsPerYear.v) <= 50


\* C24: at most one calculation is in flight: a step that starts a
\* calculation (Calculate, or Continue on the efficiency warning) is taken
\* only when none is pending, and the pending flag is set exactly while a
\* timer is pending.
C24_OneInFlight ==
  [][/\ Len(timers') <= 1
     /\ isCalculating' <=> timers' # <<>>
     /\ Len(timers') > Len(timers)
          => (timers = <<>> /\ ~isCalculating
              /\ (PressCalculate \/ AlertContinue))]_vars

C24_Witness ==
  /\ isCalculating /\ Len(timers) = 1 /\ emissions # null
  /\ screen = "Home" /\ alert = NoAlert /\ actions < MaxActions


\* C25: a calculation that has been triggered always completes: the
\* pending state leads to the pending flag cleared with a result published,
\* and the step that ends it publishes the result of the inputs captured
\* at the trigger, whatever was edited, toggled, visited or rejected by the
\* store in between.
C25_RunsToCompletion ==
  /\ isCalculating ~> (~isCalculating /\ emissions # null)
  /\ [][(isCalculating /\ ~isCalculating')
          => (/\ timers # <<>>
              /\ emissions' = emissionsPerDay(Head(timers))
              /\ timers' = Tail(timers))]_vars

C25_Witness ==
  /\ ~isCalculating /\ timers = <<>> /\ emissions = Num(2983)
  /\ miles = OtherText /\ failures = 1 /\ actions >= 2


\* C26: the log is cleared only after the user confirms: the request and
\* its cancellation change neither the persisted log nor the displayed
\* list and call nothing; only the confirmation issues a removal, one
\* call; when it resolves the whole log is gone and the displayed list is
\* empty; when it is rejected the log and the displayed list stay as they
\* were; and the persisted log never becomes absent in any other way.
C26_ClearOnlyConfirmed ==
  [][/\ PressClear
          => (alert'.kind = "ClearHistory"
              /\ UNCHANGED <<storedHistory, history, queue>>)
     /\ (AlertDismiss /\ alert.kind = "ClearHistory")
          => UNCHANGED <<storedHistory, history, queue>>
     /\ CountOps(queue', "removeHistory") > CountOps(queue, "removeHistory")
          => (/\ alert.kind = "ClearHistory" /\ alert' = NoAlert
              /\ queue' = Append(queue, [k |-> "removeHistory"])
              /\ UNCHANGED <<storedHistory, history>>)
     /\ (queue # <<>> /\ Head(queue).k = "removeHistory"
           /\ queue' = Tail(queue) /\ failures' = failures)
          => (storedHistory' = Absent /\ history' = <<>>)
     /\ (queue # <<>> /\ Head(queue).k = "removeHistory"
           /\ failures' > failures)
          => UNCHANGED <<storedHistory, history>>
     /\ (storedHistory # Absent /\ storedHistory' = Absent)
          => (queue # <<>> /\ Head(queue).k = "removeHistory")]_vars

C26_Witness ==
  /\ cleared /\ history = <<>> /\ storedHistory = Absent
  /\ screen = "History" /\ queue = <<>> /\ failures = 0 /\ alert = NoAlert


\* C27: a result displayed on the Home screen while no calculation is
\* pending is the engine's daily value for the distance, efficiency,
\* vehicle type and unit system the form shows, also when the form was
\* edited or the unit system toggled while the calculation was pending.
C27_ResultMatchesForm ==
  (emissions # null /\ ~isCalculating)
  => emissions = emissionsPerDay(Rendered)


\* C28: the two persisted entries are written independently: a step that
\* changes the persisted history (an append, a clear) leaves the persisted
\* unit flag alone; the flag changes only when the setItem of a toggle
\* resolves, which leaves the history alone; a toggle on either screen
\* issues that one call and no call on the history; a rejected calculation
\* request changes neither entry and calls nothing.
C28_IndependentEntries ==
  [][/\ storedHistory' # storedHistory => storedIsMetric' = storedIsMetric
     /\ storedIsMetric' # storedIsMetric
          => (/\ storedHistory' = storedHistory
              /\ queue # <<>> /\ Head(queue).k = "setIsMetric"
              /\ storedIsMetric' = Head(queue).value)
     /\ (ToggleMeasurement \/ HistoryToggleMeasurement)
          => (/\ UNCHANGED storeVars
              /\ queue' = Append(queue, queue'[Len(queue')])
              /\ queue'[Len(queue')].k = "setIsMetric")
     /\ (PressCalculate /\ validateInputs(Rendered) # "ok")
          => UNCHANGED <<storeVars, queue>>]_vars

C28_Witness ==
  /\ cleared /\ storedHistory = Absent /\ storedIsMetric = "true"
  /\ queue = <<>> /\ failures = 0


\* the catalog default of a vehicle type in a unit system: its MPG, or
\* 235.214 / MPG to 2 decimals
CatalogDefault(ty, metric) ==
  IF metric
  THEN toFixed2(Over(Frac(235214, 1000), Frac(vehicleData[ty], 1)))
  ELSE [t |-> "num", v |-> 100 * vehicleData[ty]]

\* C29: after a toggle of the unit system or the selection of a vehicle
\* type the efficiency field holds the catalog default of the selected
\* type in the current unit system, whatever it held before (a custom
\* value is replaced, not converted); no step changes the unit system or
\* the vehicle type of the form and leaves another efficiency in the
\* field; and a calculation captures the efficiency and the unit system
\* of one and the same render, that of the request.
C29_EfficiencyFollowsUnit ==
  [][/\ (ToggleMeasurement \/ SelectVehicle)
          => fuelEfficiency' = CatalogDefault(vehicleType', isMetric')
     /\ (isMetric' # isMetric \/ vehicleType' # vehicleType)
          => fuelEfficiency' = CatalogDefault(vehicleType', isMetric')
     /\ Len(timers') > Len(timers)
          => timers'[Len(timers')] \in {Rendered, alert.c}
     /\ (alert' # alert /\ alert'.c # null) => alert'.c = Rendered]_vars

C29_Witness ==
  /\ isMetric /\ vehicleType = "E-bike" /\ fuelEfficiency = Num(28)
  /\ actions = 2


\* C30: whenever the History screen is focused and no store call is
\* pending (none having been rejected), the list it displays is the
\* persisted log in reverse order, also when the record of a calculation
\* triggered before the switch to History is saved after the list has
\* loaded.
C30_ListMatchesLog ==
  (screen = "History" /\ queue = <<>> /\ failures = 0)
  => history = Reverse(ParseHistory(storedHistory))

====
